---- MODULE Spec2Model ----
(***************************************************************************)
(* Model of environment-weaver: the A/B testing simulator                  *)
(* (src/src/components/ABTestingSimulator.tsx), the environment context    *)
(* (src/src/contexts/EnvironmentContext.tsx), the environment resolver and *)
(* feature flags (config/environment and config/featureFlags) and the log  *)
(* viewer, and the environment simulator                                   *)
(* (src/src/components/EnvironmentSimulator.tsx).  The parts share no      *)
(* state except the selected environment and each has its own              *)
(* specification; the others stand still in it.                            *)
(*                                                                         *)
(* The component's React state is the state of the machine.  One action is *)
(* one event handler together with the render and the effects React runs   *)
(* for the state it set (the init effect keyed on selectedExperiment, the  *)
(* auto-simulation effect keyed on isSimulating and simulateUser).  The    *)
(* interval callback runs its five simulateUser calls to completion before *)
(* any other handler can run; batch is its position in that loop.          *)
(*                                                                         *)
(* Numbers.  Math.random() is a draw d in 0..DrawScale-1 read as           *)
(* d/DrawScale.  A variant's base rate is kept in units of 1/RateScale     *)
(* percent.  The conversionRate of a result row is the exact fraction      *)
(* (conversions/users)*100 in lowest terms.                                *)
(***************************************************************************)
EXTENDS Integers, Sequences, FiniteSets, TLC

\* ---------------------------------------------------------------- bounds
\* Largest totalUsers from which the model still starts a timer tick is
\* Cap - BatchSize; MaxUsers is the width of the explored counter window.
MaxUsers == 6

\* Math.random() resolution of the model: a draw d stands for d/DrawScale.
DrawScale == 1000

\* Base rates are written in 1/RateScale percent (3.2% is 32).
RateScale == 10

\* ------------------------------------------------------- program constants
\* if (totalUsers < 100) return null;
MinSample == 100

\* for (let i = 0; i < 5; i++)
BatchSize == 5

\* <input type="range" min="0" max="100">
RangeMin == 0
RangeMax == 100

experiments ==
  << [ id |-> "checkout-button", rolloutPercentage |-> 50,
       variants |-> << [id |-> "control",   conversionRate |-> 32],
                       [id |-> "variant-a", conversionRate |-> 38] >> ],
     [ id |-> "pricing-display", rolloutPercentage |-> 25,
       variants |-> << [id |-> "control",   conversionRate |-> 21],
                       [id |-> "variant-a", conversionRate |-> 28],
                       [id |-> "variant-b", conversionRate |-> 24] >> ] >>

Experiments == { experiments[k] : k \in 1..Len(experiments) }

\* ------------------------------------------------------------- inputs
\* Draws of Math.random(), one set per use in simulateUser.
AdmitDraws   == {0, 300, 990}
VariantDraws == {0, 400, 700}
JitterDraws  == {0, 999}
ConvDraws    == {20, 500}

\* Values a caller tries to put into the range input.
RolloutInputs == {-5, 0, 100, 130}

\* ------------------------------------------------------------- state
VARIABLES
  selectedExperiment,  \* useState<Experiment>(experiments[0])
  isSimulating,        \* useState(false)
  totalUsers,          \* useState(0)
  results,             \* useState<ExperimentResult[]>([])
  rollout,             \* useState(selectedExperiment.rolloutPercentage)
  interval,            \* << >> or <<closure>>: the live setInterval and the
                       \* rollout / experiment its simulateUser closed over
  batch,               \* simulateUser calls done by the running tick callback
  lastOp,              \* history: the operation that produced this state
  run,                 \* history: the steps taken since the counters were
                       \* last zeroed
  build,               \* import.meta.env: VITE_APP_ENV and MODE
  currentEnvironment,  \* EnvironmentProvider: useState<Environment>('development')
  isSimulated,         \* EnvironmentProvider: useState(false)
  config,              \* EnvironmentProvider: value.config of the last render
  configTables,        \* the two configs objects (context, config/environment)
  registry,            \* the featureFlags array
  lastEval,            \* history: the last call of the flag / config functions
  logs,                \* LogViewer: useState<LogEntry[]>([])
  isStreaming,         \* LogViewer: useState(true)
  filter,              \* LogViewer: useState<LogLevel | 'all'>('all')
  isTransitioning,     \* EnvironmentSimulator: useState(false)
  pending,             \* EnvironmentSimulator: the environments of the
                       \* timeouts not yet fired, oldest first
  requested            \* history: << >> or <<env>>, the last environment
                       \* button clicked

simVars == <<selectedExperiment, isSimulating, totalUsers, results, rollout>>
simulatorVars == <<selectedExperiment, isSimulating, totalUsers, results,
                   rollout, interval, batch, lastOp, run>>
environmentVars == <<build, currentEnvironment, isSimulated, config, configTables>>
flagVars == <<registry, lastEval>>
logVars == <<logs, isStreaming, filter>>
switcherVars == <<isTransitioning, pending, requested>>
outsideVars == <<environmentVars, flagVars, logVars, switcherVars>>
vars == <<simulatorVars, environmentVars, flagVars, logVars, switcherVars>>

\* ------------------------------------------------------ numeric helpers
RECURSIVE GCD(_, _)
GCD(a, b) == IF b = 0 THEN a ELSE GCD(b, a % b)

\* (newConversions / newUsers) * 100 as an exact fraction in lowest terms.
ConversionRate(conversions, users) ==
  LET num == conversions * 100
      g   == GCD(num, users)
  IN  [n |-> num \div g, d |-> users \div g]

\* conversionRate: 0 of a fresh row.
ZeroRate == [n |-> 0, d |-> 1]

\* a.conversionRate > b.conversionRate
RateGT(a, b) == a.n * b.d > b.n * a.d

RECURSIVE SumUsers(_)
SumUsers(res) ==
  IF res = << >> THEN 0 ELSE Head(res).users + SumUsers(Tail(res))

\* ------------------------------------------------- pieces of the component
\* selectedExperiment.variants.map(v => ({variantId: v.id, users: 0, ...}))
InitResults(exp) ==
  [k \in 1..Len(exp.variants) |->
     [variantId |-> exp.variants[k].id, users |-> 0, conversions |-> 0,
      conversionRate |-> ZeroRate]]

\* Variant: an input without min / max, which reports the value as given.
RangeValueUnbounded(p) == p

\* Value the range input reports for an attempted value p: the control keeps
\* its value inside [min, max].
RangeValue(p) ==
  IF p < RangeMin THEN RangeMin ELSE IF p > RangeMax THEN RangeMax ELSE p

\* Variant: Math.random() * 100 <= rollout
IsInExperimentLE(d, rolloutPct) == d * 100 <= rolloutPct * DrawScale

\* Math.random() * 100 < rollout
IsInExperiment(d, rolloutPct) == d * 100 < rolloutPct * DrawScale

\* Math.floor(Math.random() * variants.length), as a 1-based index
VariantIndex(d, n) == ((d * n) \div DrawScale) + 1

\* variant.conversionRate + (Math.random() - 0.5) * 0.5, in units of
\* 1/(4*DrawScale*RateScale) percent
AdjustedRate(variant, d) ==
  4 * DrawScale * variant.conversionRate + RateScale * (2 * d - DrawScale)

\* Variant: Math.random() < adjustedRate, the draw not scaled to a percentage.
ConvertedUnscaled(d, adjustedRate) == 4 * RateScale * d < adjustedRate

\* Math.random() * 100 < adjustedRate
Converted(d, adjustedRate) == 400 * RateScale * d < adjustedRate

\* Variant: the map has no test of r.variantId, so every row is credited.
CreditVariantEveryRow(prev, variantId, converted) ==
  [k \in 1..Len(prev) |->
     LET newUsers       == prev[k].users + 1
         newConversions == prev[k].conversions + (IF converted THEN 1 ELSE 0)
     IN  [variantId |-> prev[k].variantId, users |-> newUsers,
          conversions |-> newConversions,
          conversionRate |-> ConversionRate(newConversions, newUsers)]]

\* Variant: the rate is computed from r.conversions instead of newConversions.
CreditVariantStaleRate(prev, variantId, converted) ==
  [k \in 1..Len(prev) |->
     IF prev[k].variantId = variantId
     THEN LET newUsers       == prev[k].users + 1
              newConversions == prev[k].conversions + (IF converted THEN 1 ELSE 0)
          IN  [variantId |-> prev[k].variantId, users |-> newUsers,
               conversions |-> newConversions,
               conversionRate |-> ConversionRate(prev[k].conversions, newUsers)]
     ELSE prev[k]]

\* prev.map(r => r.variantId === variant.id ? {...} : r)
CreditVariant(prev, variantId, converted) ==
  [k \in 1..Len(prev) |->
     IF prev[k].variantId = variantId
     THEN LET newUsers       == prev[k].users + 1
              newConversions == prev[k].conversions + (IF converted THEN 1 ELSE 0)
          IN  [variantId |-> prev[k].variantId, users |-> newUsers,
               conversions |-> newConversions,
               conversionRate |-> ConversionRate(newConversions, newUsers)]
     ELSE prev[k]]

\* Row standing for the TypeError of reduce() on an empty array.
TypeError == [variantId |-> "TypeError", users |-> 0, conversions |-> 0,
              conversionRate |-> ZeroRate]

\* results.reduce((a, b) => a.conversionRate > b.conversionRate ? a : b)
RECURSIVE ReduceFrom(_, _, _)
ReduceFrom(a, res, k) ==
  IF k > Len(res) THEN a
  ELSE ReduceFrom(IF RateGT(a.conversionRate, res[k].conversionRate)
                  THEN a ELSE res[k], res, k + 1)

\* Variant of the reduction whose comparison is >=, so the earlier of two
\* equal rows is kept.
RECURSIVE ReduceFromGE(_, _, _)
ReduceFromGE(a, res, k) ==
  IF k > Len(res) THEN a
  ELSE ReduceFromGE(IF ~RateGT(res[k].conversionRate, a.conversionRate)
                    THEN a ELSE res[k], res, k + 1)

getWinningVariantGE(total, res) ==
  IF total < MinSample THEN << >>
  ELSE IF res = << >> THEN <<TypeError>>
  ELSE <<ReduceFromGE(res[1], res, 2)>>

\* Variant whose gate is totalUsers <= 100.
getWinningVariantLE(total, res) ==
  IF total <= MinSample THEN << >>
  ELSE IF res = << >> THEN <<TypeError>>
  ELSE <<ReduceFrom(res[1], res, 2)>>

\* << >> is null, <<row>> a winner.
getWinningVariant(total, res) ==
  IF total < MinSample THEN << >>
  ELSE IF res = << >> THEN <<TypeError>>
  ELSE <<ReduceFrom(res[1], res, 2)>>

\* const winner = getWinningVariant();  (evaluated by every render)
winner == getWinningVariant(totalUsers, results)

\* Auto-simulation effect: the interval that exists after a render in which
\* isSimulating / rollout / selectedExperiment have the given values.  The
\* cleanup clears the previous interval whenever a dependency changed.
AutoSimulationEffect(sim, rolloutPct, exp) ==
  IF sim THEN << [rollout |-> rolloutPct, selectedExperiment |-> exp] >>
  ELSE << >>

\* ------------------------------------------------------- exploration window
Cap(t) == IF t >= MinSample - BatchSize THEN MinSample + MaxUsers ELSE MaxUsers
TickAllowed == totalUsers + BatchSize <= Cap(totalUsers)

\* ------------------------------------------------------------- history
\* lastOp: the operation, which case of it ran, the value it was given, and
\* what the state it ran in looked like.
Op(name, arg, input) ==
  [op |-> name, arg |-> arg, input |-> input, wasRunning |-> isSimulating,
   hadUsers |-> totalUsers > 0, repeat |-> lastOp.op = name]

\* run.full: number of simulateUser calls since the counters were zeroed if
\* every one of them ran with rollout 100, else -1.  run.zero: the same for
\* rollout 0, counted up to BatchSize.  run.resumed: the simulation was
\* started again with counters kept.  run.zeroBatch: BatchSize calls in a
\* row with rollout 0 have happened at some time.
RunZeroed ==
  [full |-> 0, zero |-> 0, resumed |-> FALSE, zeroBatch |-> run.zeroBatch]

RunStep(rolloutPct) ==
  LET z == IF run.zero >= 0 /\ rolloutPct = 0
           THEN (IF run.zero < BatchSize THEN run.zero + 1 ELSE run.zero)
           ELSE -1
  IN  [full |-> IF run.full >= 0 /\ rolloutPct = 100 THEN run.full + 1 ELSE -1,
       zero |-> z,
       resumed |-> run.resumed,
       zeroBatch |-> run.zeroBatch \/ z = BatchSize]

\* ------------------------------------------------------------- actions
\* Variant: the init effect does not call setTotalUsers(0).
InitEffectKeepsTotal(exp) ==
  /\ results' = InitResults(exp)
  /\ rollout' = exp.rolloutPercentage
  /\ UNCHANGED totalUsers

\* Init effect, run after a render in which selectedExperiment changed.
InitEffect(exp) ==
  /\ results' = InitResults(exp)
  /\ rollout' = exp.rolloutPercentage
  /\ totalUsers' = 0

\* Variant: the init effect runs after every click, also when the selected
\* experiment is the one that was selected.
SelectExperimentAlwaysInit(exp) ==
  /\ UNCHANGED outsideVars
  /\ batch = 0
  /\ selectedExperiment' = exp
  /\ isSimulating' = FALSE
  /\ InitEffect(exp)
  /\ interval' = AutoSimulationEffect(FALSE, rollout', exp)
  /\ lastOp' = Op("selectExperiment",
                  IF exp # selectedExperiment THEN "switch" ELSE "same", 0)
  /\ run' = IF exp # selectedExperiment THEN RunZeroed ELSE run
  /\ UNCHANGED batch

\* Variant: the click does not call setIsSimulating(false), so the timer is
\* set up again with the new experiment and rollout.
SelectExperimentKeepsRunning(exp) ==
  /\ UNCHANGED outsideVars
  /\ batch = 0
  /\ selectedExperiment' = exp
  /\ UNCHANGED isSimulating
  /\ IF exp # selectedExperiment
     THEN InitEffect(exp)
     ELSE UNCHANGED <<results, rollout, totalUsers>>
  /\ interval' = AutoSimulationEffect(isSimulating, rollout', exp)
  /\ lastOp' = Op("selectExperiment",
                  IF exp # selectedExperiment THEN "switch" ELSE "same", 0)
  /\ run' = IF exp # selectedExperiment THEN RunZeroed ELSE run
  /\ UNCHANGED batch

\* onClick of an experiment button: setSelectedExperiment(exp) and
\* setIsSimulating(false); then the init effect if the selected experiment
\* changed (setting the same experiment object is no state change), then the
\* auto-simulation effect.
SelectExperiment(exp) ==
  /\ UNCHANGED outsideVars
  /\ batch = 0
  /\ selectedExperiment' = exp
  /\ isSimulating' = FALSE
  /\ IF exp # selectedExperiment
     THEN InitEffect(exp)
     ELSE UNCHANGED <<results, rollout, totalUsers>>
  /\ interval' = AutoSimulationEffect(FALSE, rollout', exp)
  /\ lastOp' = Op("selectExperiment",
                  IF exp # selectedExperiment THEN "switch" ELSE "same", 0)
  /\ run' = IF exp # selectedExperiment THEN RunZeroed ELSE run
  /\ UNCHANGED batch

\* Variant: simulateUser is not rebuilt when rollout changes, so the running
\* interval keeps the closure it has.
SetRolloutStaleClosure(p) ==
  /\ UNCHANGED outsideVars
  /\ batch = 0
  /\ rollout' = RangeValue(p)
  /\ UNCHANGED interval
  /\ lastOp' = Op("setRollout", "setRollout", p)
  /\ UNCHANGED <<selectedExperiment, isSimulating, totalUsers, results, batch, run>>

\* onChange of the range input: setRollout(Number(e.target.value))
SetRollout(p) ==
  /\ UNCHANGED outsideVars
  /\ batch = 0
  /\ rollout' = RangeValue(p)
  /\ interval' = AutoSimulationEffect(isSimulating, rollout', selectedExperiment)
  /\ lastOp' = Op("setRollout", "setRollout", p)
  /\ UNCHANGED <<selectedExperiment, isSimulating, totalUsers, results, batch, run>>

\* Variant: the auto-simulation effect has no cleanup, so the interval set at
\* start survives the pause.
ToggleSimulationNoCleanup ==
  /\ UNCHANGED outsideVars
  /\ batch = 0
  /\ isSimulating' = ~isSimulating
  /\ interval' = IF isSimulating' 
                 THEN AutoSimulationEffect(TRUE, rollout, selectedExperiment)
                 ELSE interval
  /\ lastOp' = Op("toggle", IF isSimulating THEN "pause" ELSE "start", 0)
  /\ run' = [run EXCEPT !.resumed = @ \/ (~isSimulating /\ totalUsers > 0)]
  /\ UNCHANGED <<selectedExperiment, totalUsers, results, rollout, batch>>

\* onClick of the start / pause button: setIsSimulating(!isSimulating)
ToggleSimulation ==
  /\ UNCHANGED outsideVars
  /\ batch = 0
  /\ isSimulating' = ~isSimulating
  /\ interval' = AutoSimulationEffect(isSimulating', rollout, selectedExperiment)
  /\ lastOp' = Op("toggle", IF isSimulating THEN "pause" ELSE "start", 0)
  /\ run' = [run EXCEPT !.resumed = @ \/ (~isSimulating /\ totalUsers > 0)]
  /\ UNCHANGED <<selectedExperiment, totalUsers, results, rollout, batch>>

\* Variant: reset toggles the simulation instead of stopping it.
resetSimulationToggles ==
  /\ UNCHANGED outsideVars
  /\ batch = 0
  /\ isSimulating' = ~isSimulating
  /\ totalUsers' = 0
  /\ results' = InitResults(selectedExperiment)
  /\ interval' = AutoSimulationEffect(isSimulating', rollout, selectedExperiment)
  /\ lastOp' = Op("reset", "reset", 0)
  /\ run' = RunZeroed
  /\ UNCHANGED <<selectedExperiment, rollout, batch>>

resetSimulation ==
  /\ UNCHANGED outsideVars
  /\ batch = 0
  /\ isSimulating' = FALSE
  /\ totalUsers' = 0
  /\ results' = InitResults(selectedExperiment)
  /\ interval' = AutoSimulationEffect(FALSE, rollout, selectedExperiment)
  /\ lastOp' = Op("reset", "reset", 0)
  /\ run' = RunZeroed
  /\ UNCHANGED <<selectedExperiment, rollout, batch>>

\* Variant: the user is counted before the admission test.
simulateUserCountsFirst(dAdmit, dVariant, dJitter, dConv) ==
  /\ UNCHANGED outsideVars
  /\ interval # << >>
  /\ batch = 0 => TickAllowed
  /\ LET c        == interval[1]
         exp      == c.selectedExperiment
         variant  == exp.variants[VariantIndex(dVariant, Len(exp.variants))]
         converted == Converted(dConv, AdjustedRate(variant, dJitter))
     IN  IF ~IsInExperiment(dAdmit, c.rollout)
         THEN /\ totalUsers' = totalUsers + 1
              /\ UNCHANGED results
              /\ lastOp' = Op("simulateUser", "skip", 0)
         ELSE /\ totalUsers' = totalUsers + 1
              /\ results' = CreditVariant(results, variant.id, converted)
              /\ lastOp' = Op("simulateUser", "admit", 0)
  /\ run' = RunStep(interval[1].rollout)
  /\ batch' = (batch + 1) % BatchSize
  /\ UNCHANGED <<selectedExperiment, isSimulating, rollout, interval>>

\* One simulateUser() call of the interval callback, with the rollout and
\* experiment its closure captured; batch counts the calls of the callback.
simulateUser(dAdmit, dVariant, dJitter, dConv) ==
  /\ UNCHANGED outsideVars
  /\ interval # << >>
  /\ batch = 0 => TickAllowed
  /\ LET c        == interval[1]
         exp      == c.selectedExperiment
         variant  == exp.variants[VariantIndex(dVariant, Len(exp.variants))]
         converted == Converted(dConv, AdjustedRate(variant, dJitter))
     IN  IF ~IsInExperiment(dAdmit, c.rollout)
         THEN /\ UNCHANGED <<totalUsers, results>>
              /\ lastOp' = Op("simulateUser", "skip", 0)
         ELSE /\ totalUsers' = totalUsers + 1
              /\ results' = CreditVariant(results, variant.id, converted)
              /\ lastOp' = Op("simulateUser", "admit", 0)
  /\ run' = RunStep(interval[1].rollout)
  /\ batch' = (batch + 1) % BatchSize
  /\ UNCHANGED <<selectedExperiment, isSimulating, rollout, interval>>

\* ============================================================ environment
Environments == {"development", "staging", "production"}

\* import.meta.env.VITE_APP_ENV when the variable is not set.
Undefined == "<undefined>"

\* Builds the model explores: values of VITE_APP_ENV and of MODE.
AppEnvInputs == {Undefined, "staging", "production", "development"}
ModeInputs   == {"development", "production", "staging"}

\* Variant of the context's table whose production logLevel is 'warn'.
configsProductionWarn ==
  [ development |->
      [ name |-> "development", displayName |-> "Development",
        apiUrl |-> "http://localhost:3000/api", debugMode |-> TRUE,
        logLevel |-> "debug",
        features |-> [analytics |-> FALSE, errorReporting |-> FALSE,
                      experimentalFeatures |-> TRUE] ],
    staging |->
      [ name |-> "staging", displayName |-> "Staging",
        apiUrl |-> "https://staging-api.example.com", debugMode |-> TRUE,
        logLevel |-> "info",
        features |-> [analytics |-> TRUE, errorReporting |-> TRUE,
                      experimentalFeatures |-> TRUE] ],
    production |->
      [ name |-> "production", displayName |-> "Production",
        apiUrl |-> "https://api.example.com", debugMode |-> FALSE,
        logLevel |-> "warn",
        features |-> [analytics |-> TRUE, errorReporting |-> TRUE,
                      experimentalFeatures |-> FALSE] ] ]

\* const configs of contexts/EnvironmentContext.tsx
configs ==
  [ development |->
      [ name |-> "development", displayName |-> "Development",
        apiUrl |-> "http://localhost:3000/api", debugMode |-> TRUE,
        logLevel |-> "debug",
        features |-> [analytics |-> FALSE, errorReporting |-> FALSE,
                      experimentalFeatures |-> TRUE] ],
    staging |->
      [ name |-> "staging", displayName |-> "Staging",
        apiUrl |-> "https://staging-api.example.com", debugMode |-> TRUE,
        logLevel |-> "info",
        features |-> [analytics |-> TRUE, errorReporting |-> TRUE,
                      experimentalFeatures |-> TRUE] ],
    production |->
      [ name |-> "production", displayName |-> "Production",
        apiUrl |-> "https://api.example.com", debugMode |-> FALSE,
        logLevel |-> "error",
        features |-> [analytics |-> TRUE, errorReporting |-> TRUE,
                      experimentalFeatures |-> FALSE] ] ]

\* const configs of config/environment
environmentConfigs ==
  [ development |->
      [ name |-> "development", displayName |-> "Development",
        apiUrl |-> "http://localhost:3000/api", debugMode |-> TRUE,
        logLevel |-> "debug",
        features |-> [analytics |-> FALSE, errorReporting |-> FALSE,
                      experimentalFeatures |-> TRUE] ],
    staging |->
      [ name |-> "staging", displayName |-> "Staging",
        apiUrl |-> "https://staging-api.example.com", debugMode |-> TRUE,
        logLevel |-> "info",
        features |-> [analytics |-> TRUE, errorReporting |-> TRUE,
                      experimentalFeatures |-> TRUE] ],
    production |->
      [ name |-> "production", displayName |-> "Production",
        apiUrl |-> "https://api.example.com", debugMode |-> FALSE,
        logLevel |-> "error",
        features |-> [analytics |-> TRUE, errorReporting |-> TRUE,
                      experimentalFeatures |-> FALSE] ] ]

\* VITE_APP_ENV is looked at first, for 'staging' and 'production' only; then
\* MODE, for 'production' only.
getCurrentEnvironment(b) ==
  IF b.VITE_APP_ENV = "staging" THEN "staging"
  ELSE IF b.VITE_APP_ENV = "production" THEN "production"
  ELSE IF b.MODE = "production" THEN "production"
  ELSE "development"

\* configs[getCurrentEnvironment()]
getConfig(tables, b) == tables.environment[getCurrentEnvironment(b)]

\* ================================================================== flags
\* rolloutPercentage is << >> when the flag does not define it.
featureFlags ==
  << [ id |-> "dark_mode_v2",
       enabled |-> [development |-> TRUE, staging |-> TRUE, production |-> FALSE],
       rolloutPercentage |-> <<100>> ],
     [ id |-> "new_dashboard",
       enabled |-> [development |-> TRUE, staging |-> TRUE, production |-> TRUE],
       rolloutPercentage |-> <<50>> ],
     [ id |-> "ai_suggestions",
       enabled |-> [development |-> TRUE, staging |-> FALSE, production |-> FALSE],
       rolloutPercentage |-> << >> ],
     [ id |-> "beta_api_v2",
       enabled |-> [development |-> TRUE, staging |-> TRUE, production |-> FALSE],
       rolloutPercentage |-> <<25>> ],
     [ id |-> "export_pdf",
       enabled |-> [development |-> TRUE, staging |-> TRUE, production |-> TRUE],
       rolloutPercentage |-> <<100>> ] >>

\* Flag ids a caller asks for, and the draws of Math.random() of a call.
FlagIdInputs ==
  { featureFlags[k].id : k \in 1..Len(featureFlags) } \cup {"unknown_flag", "Dark_Mode_V2"}
FlagDraws == {0, 250, 300, 990}

\* featureFlags.find(f => f.id === flagId): << >> or <<flag>>
FindFlag(reg, flagId) ==
  LET found == SelectSeq(reg, LAMBDA f : f.id = flagId)
  IN  IF found = << >> THEN << >> ELSE << found[1] >>

\* Variant: an unknown flag evaluates to true.
isFeatureEnabledFailOpen(reg, flagId, b, d) ==
  LET flag == FindFlag(reg, flagId)
  IN  IF flag = << >> THEN TRUE
      ELSE IF ~flag[1].enabled[getCurrentEnvironment(b)] THEN FALSE
      ELSE IF flag[1].rolloutPercentage # << >> /\ flag[1].rolloutPercentage[1] < 100
           THEN d * 100 < flag[1].rolloutPercentage[1] * DrawScale
           ELSE TRUE

\* Variant: the rollout is looked at before the environment gate.
isFeatureEnabledRolloutFirst(reg, flagId, b, d) ==
  LET flag == FindFlag(reg, flagId)
  IN  IF flag = << >> THEN FALSE
      ELSE IF flag[1].rolloutPercentage # << >> /\ flag[1].rolloutPercentage[1] < 100
           THEN d * 100 < flag[1].rolloutPercentage[1] * DrawScale
           ELSE IF ~flag[1].enabled[getCurrentEnvironment(b)] THEN FALSE
           ELSE TRUE

\* Variant: the rollout percentage is not looked at.
isFeatureEnabledIgnoresRollout(reg, flagId, b, d) ==
  LET flag == FindFlag(reg, flagId)
  IN  IF flag = << >> THEN FALSE
      ELSE IF ~flag[1].enabled[getCurrentEnvironment(b)] THEN FALSE
      ELSE TRUE

isFeatureEnabled(reg, flagId, b, d) ==
  LET flag == FindFlag(reg, flagId)
  IN  IF flag = << >> THEN FALSE
      ELSE IF ~flag[1].enabled[getCurrentEnvironment(b)] THEN FALSE
      ELSE IF flag[1].rolloutPercentage # << >> /\ flag[1].rolloutPercentage[1] < 100
           THEN d * 100 < flag[1].rolloutPercentage[1] * DrawScale
           ELSE TRUE

\* Variant: currentlyEnabled also requires a complete rollout.
getAllFeatureFlagsEffective(reg, b) ==
  [k \in 1..Len(reg) |->
     [ id |-> reg[k].id, enabled |-> reg[k].enabled,
       rolloutPercentage |-> reg[k].rolloutPercentage,
       currentlyEnabled |->
         /\ reg[k].enabled[getCurrentEnvironment(b)]
         /\ (reg[k].rolloutPercentage = << >> \/ reg[k].rolloutPercentage[1] >= 100) ]]

\* featureFlags.map(flag => ({...flag, currentlyEnabled: flag.enabled[currentEnv]}))
getAllFeatureFlags(reg, b) ==
  [k \in 1..Len(reg) |->
     [ id |-> reg[k].id, enabled |-> reg[k].enabled,
       rolloutPercentage |-> reg[k].rolloutPercentage,
       currentlyEnabled |-> reg[k].enabled[getCurrentEnvironment(b)] ]]

\* lastEval: the function called, its arguments, the environment it read, the
\* context's selection at the time and what it returned.
Eval(name, flagId, d, result, list, cfg) ==
  [ op |-> name, flagId |-> flagId, draw |-> d,
    env |-> getCurrentEnvironment(build),
    selected |-> currentEnvironment, simulated |-> isSimulated,
    result |-> result, list |-> list, config |-> cfg ]

NoEval ==
  [ op |-> "none", flagId |-> "", draw |-> 0, env |-> "development",
    selected |-> "development", simulated |-> FALSE,
    result |-> FALSE, list |-> << >>, config |-> << >> ]

\* ---------------------------------------------- actions: context and flags
\* Variant: the provider keeps exposing the config of the previous render.
setEnvironmentStaleConfig(env) ==
  /\ currentEnvironment' = env
  /\ isSimulated' = TRUE
  /\ UNCHANGED config
  /\ UNCHANGED <<build, configTables, simulatorVars, flagVars, logVars, switcherVars>>

\* setCurrentEnvironment(env); setIsSimulated(true); the provider renders
\* again with config = configs[currentEnvironment].
setEnvironment(env) ==
  /\ currentEnvironment' = env
  /\ isSimulated' = TRUE
  /\ config' = configTables.context[env]
  /\ UNCHANGED <<build, configTables, simulatorVars, flagVars, logVars, switcherVars>>

\* A call isFeatureEnabled(flagId) whose Math.random() draws d.
IsFeatureEnabledCall(flagId, d) ==
  /\ lastEval' = Eval("isFeatureEnabled", flagId, d,
                      isFeatureEnabled(registry, flagId, build, d), << >>, << >>)
  /\ UNCHANGED <<registry, simulatorVars, environmentVars, logVars, switcherVars>>

\* Variant: the map overwrites each flag's enablement with the current
\* environment's value.
GetAllFeatureFlagsCallInPlace ==
  /\ lastEval' = Eval("getAllFeatureFlags", "", 0, FALSE,
                      getAllFeatureFlags(registry, build), << >>)
  /\ registry' = [k \in 1..Len(registry) |->
                    [registry[k] EXCEPT !.enabled =
                       [e \in Environments |->
                          registry[k].enabled[getCurrentEnvironment(build)]]]]
  /\ UNCHANGED <<simulatorVars, environmentVars, logVars, switcherVars>>

\* A render of FeatureFlagsPanel: getAllFeatureFlags()
GetAllFeatureFlagsCall ==
  /\ lastEval' = Eval("getAllFeatureFlags", "", 0, FALSE,
                      getAllFeatureFlags(registry, build), << >>)
  /\ UNCHANGED <<registry, simulatorVars, environmentVars, logVars, switcherVars>>

\* A call getConfig()
GetConfigCall ==
  /\ lastEval' = Eval("getConfig", "", 0, FALSE, << >>,
                      << getConfig(configTables, build) >>)
  /\ UNCHANGED <<registry, simulatorVars, environmentVars, logVars, switcherVars>>

\* ================================================== environment simulator
\* The number of timeouts the exploration lets be pending at once.
MaxPending == 3

\* onClick of an environment button: handleEnvironmentChange(env).  A click
\* on the current environment returns at once; any other sets the indicator
\* and starts a timeout.
handleEnvironmentChange(env) ==
  /\ requested' = << env >>
  /\ IF env = currentEnvironment
     THEN UNCHANGED <<isTransitioning, pending>>
     ELSE /\ Len(pending) < MaxPending
          /\ isTransitioning' = TRUE
          /\ pending' = Append(pending, env)
  /\ UNCHANGED <<simulatorVars, environmentVars, flagVars, logVars>>

\* The oldest timeout fires (all have the same delay, so they fire in the
\* order they were set): setEnvironment(env); setIsTransitioning(false), and
\* the provider renders with the new config.
EnvironmentTimeout ==
  /\ pending # << >>
  /\ currentEnvironment' = Head(pending)
  /\ isSimulated' = TRUE
  /\ config' = configTables.context[Head(pending)]
  /\ isTransitioning' = FALSE
  /\ pending' = Tail(pending)
  /\ UNCHANGED <<requested, build, configTables, simulatorVars, flagVars, logVars>>

\* ============================================================= log viewer
LogLevels == {"debug", "info", "warn", "error"}

\* The levels of the entries of sampleLogs, in the order of the array.
sampleLogs ==
  << "debug", "debug", "info", "debug", "info", "warn", "debug", "info", "error", "warn",
     "debug", "info", "error", "debug", "warn", "info", "debug", "error", "info", "warn" >>

\* Variant: info and warn exchanged.
logLevelPriorityInfoAboveWarn == [debug |-> 0, info |-> 2, warn |-> 1, error |-> 3]

logLevelPriority == [debug |-> 0, info |-> 1, warn |-> 2, error |-> 3]

\* [...prev.slice(-50), newLog] keeps the 50 newest entries of prev.
KeepLast == 50

\* The number of entries the exploration lets the buffer reach.
MaxLogs == 4

\* Draws of Math.random() of a tick: entries 1, 3, 6 and 9 of sampleLogs.
LogDraws == {25, 125, 275, 425}

\* sampleLogs[Math.floor(Math.random() * sampleLogs.length)]
RandomLog(d) ==
  LET index == ((d * Len(sampleLogs)) \div DrawScale) + 1
  IN  [level |-> sampleLogs[index], sample |-> index]

\* prev.slice(-n)
SliceLast(prev, n) ==
  IF Len(prev) <= n THEN prev ELSE SubSeq(prev, Len(prev) - n + 1, Len(prev))

\* Variant: an entry must be above the minimum level.
passesEnvFilterStrict(level, minLogLevel) ==
  logLevelPriority[level] > logLevelPriority[minLogLevel]

\* logPriority >= minPriority
passesEnvFilter(level, minLogLevel) ==
  logLevelPriority[level] >= logLevelPriority[minLogLevel]

\* filter === 'all' || log.level === filter
passesUserFilter(level, f) == f = "all" \/ level = f

filteredLogs(ls, minLogLevel, f) ==
  SelectSeq(ls, LAMBDA log : passesEnvFilter(log.level, minLogLevel)
                               /\ passesUserFilter(log.level, f))

\* acc[log.level] = (acc[log.level] || 0) + 1
CountUp(acc, level) ==
  [l \in (DOMAIN acc) \cup {level} |->
     IF l = level THEN (IF l \in DOMAIN acc THEN acc[l] ELSE 0) + 1 ELSE acc[l]]

\* The reduce of logCounts over the first k entries of ls, from {}.
RECURSIVE CountsUpTo(_, _, _)
CountsUpTo(ls, k, minLogLevel) ==
  IF k = 0 THEN [l \in {} |-> 0]
  ELSE LET acc == CountsUpTo(ls, k - 1, minLogLevel)
       IN  IF logLevelPriority[ls[k].level] >= logLevelPriority[minLogLevel]
           THEN CountUp(acc, ls[k].level)
           ELSE acc

\* Variant: every entry is counted, whatever the minimum level.
logCountsUnfiltered(ls, minLogLevel) == CountsUpTo(ls, Len(ls), "debug")

logCounts(ls, minLogLevel) == CountsUpTo(ls, Len(ls), minLogLevel)

\* logCounts[level] || 0, the number a level's tab shows.
TabCount(counts, level) == IF level \in DOMAIN counts THEN counts[level] ELSE 0

\* --------------------------------------------------- exploration window
\* Entry 2 of sampleLogs, which no draw of LogDraws picks: the entries of a
\* buffer that was filled before the exploration starts.
WarmLog == [level |-> sampleLogs[2], sample |-> 2]

\* Entries of ls generated during the exploration; ticks stop at MaxLogs.
FreshCount(ls) == Cardinality({ i \in 1..Len(ls) : ls[i] # WarmLog })

\* A tick of the log generation interval whose Math.random() draws d.
LogTick(d) ==
  /\ isStreaming
  /\ FreshCount(logs) < MaxLogs
  /\ logs' = Append(SliceLast(logs, KeepLast), RandomLog(d))
  /\ UNCHANGED <<isStreaming, filter, simulatorVars, environmentVars, flagVars, switcherVars>>

\* The pause / resume button.
ToggleStreaming ==
  /\ isStreaming' = ~isStreaming
  /\ UNCHANGED <<logs, filter, simulatorVars, environmentVars, flagVars, switcherVars>>

\* The clear button.
ClearLogs ==
  /\ logs' = << >>
  /\ UNCHANGED <<isStreaming, filter, simulatorVars, environmentVars, flagVars, switcherVars>>

\* The filter tabs: 'all', and a level whose tab is not disabled.
SetFilter(f) ==
  /\ IF f = "all" THEN TRUE
     ELSE ~(logLevelPriority[f] < logLevelPriority[config.logLevel])
  /\ filter' = f
  /\ UNCHANGED <<logs, isStreaming, simulatorVars, environmentVars, flagVars, switcherVars>>

\* ------------------------------------------------------- specifications
Mount ==
  [op |-> "mount", arg |-> "mount", input |-> 0, wasRunning |-> FALSE,
   hadUsers |-> FALSE, repeat |-> FALSE]

\* The build of a plain `vite` development server.
DevBuild == [VITE_APP_ENV |-> Undefined, MODE |-> "development"]

\* EnvironmentSimulator after its first render: no change under way.
SwitcherInit ==
  /\ isTransitioning = FALSE
  /\ pending = << >>
  /\ requested = << >>

\* EnvironmentProvider after its first render, in a build b.
EnvironmentInit(b) ==
  /\ build = b
  /\ currentEnvironment = "development"
  /\ isSimulated = FALSE
  /\ configTables = [context |-> configs, environment |-> environmentConfigs]
  /\ config = configs["development"]

\* The module-level registry, before any call.
FlagsInit ==
  /\ registry = featureFlags
  /\ lastEval = NoEval

\* LogViewer after its first render.
LogViewerInit ==
  /\ logs = << >>
  /\ isStreaming = TRUE
  /\ filter = "all"

\* ABTestingSimulator after its first render and its effects.
SimulatorInit ==
  /\ selectedExperiment = experiments[1]
  /\ isSimulating = FALSE
  /\ totalUsers = 0
  /\ results = InitResults(experiments[1])
  /\ rollout = experiments[1].rolloutPercentage
  /\ interval = << >>
  /\ batch = 0
  /\ lastOp = Mount
  /\ run = [full |-> 0, zero |-> 0, resumed |-> FALSE, zeroBatch |-> FALSE]

\* State after the first render and its effects.
Init ==
  /\ SimulatorInit
  /\ EnvironmentInit(DevBuild)
  /\ SwitcherInit
  /\ FlagsInit
  /\ LogViewerInit

Next ==
  \/ \E exp \in Experiments : SelectExperiment(exp)
  \/ \E p \in RolloutInputs : SetRollout(p)
  \/ ToggleSimulation
  \/ resetSimulation
  \/ \E da \in AdmitDraws, dv \in VariantDraws, dj \in JitterDraws, dc \in ConvDraws :
       simulateUser(da, dv, dj, dc)

Spec == Init /\ [][Next]_vars

\* Counter states just below the minimum sample size, each reachable from
\* Init by some sequence of ticks; used to explore the 100-user gate.
Row(id, users, conversions) ==
  [variantId |-> id, users |-> users, conversions |-> conversions,
   conversionRate |-> IF users = 0 THEN ZeroRate
                      ELSE ConversionRate(conversions, users)]

WarmResults(exp) ==
  IF exp = experiments[1]
  THEN { << Row("control", 50, 2), Row("variant-a", 49, 2) >>,
         << Row("control", 48, 1), Row("variant-a", 50, 2) >> }
  ELSE { << Row("control", 33, 1), Row("variant-a", 33, 1), Row("variant-b", 33, 1) >>,
         << Row("control", 40, 1), Row("variant-a", 30, 1), Row("variant-b", 29, 1) >> }

InitWarm ==
  /\ selectedExperiment \in Experiments
  /\ isSimulating = FALSE
  /\ results \in WarmResults(selectedExperiment)
  /\ totalUsers = SumUsers(results)
  /\ rollout = selectedExperiment.rolloutPercentage
  /\ interval = << >>
  /\ batch = 0
  /\ lastOp = [Mount EXCEPT !.op = "warm", !.arg = "warm"]
  /\ run = [full |-> -1, zero |-> -1, resumed |-> FALSE, zeroBatch |-> FALSE]
  /\ EnvironmentInit(DevBuild)
  /\ SwitcherInit
  /\ FlagsInit
  /\ LogViewerInit

SpecWarm == InitWarm /\ [][Next]_vars

\* The context and the flag evaluator, in every build; the simulator and the
\* log viewer stay as mounted.
Builds == [VITE_APP_ENV : AppEnvInputs, MODE : ModeInputs]

InitFlags ==
  /\ SimulatorInit
  /\ \E b \in Builds : EnvironmentInit(b)
  /\ SwitcherInit
  /\ FlagsInit
  /\ LogViewerInit

NextFlags ==
  \/ \E env \in Environments : setEnvironment(env)
  \/ \E flagId \in FlagIdInputs, d \in FlagDraws : IsFeatureEnabledCall(flagId, d)
  \/ GetAllFeatureFlagsCall
  \/ GetConfigCall

SpecFlags == InitFlags /\ [][NextFlags]_vars

\* The log viewer under the context; the simulator and the flags stay as
\* mounted.
NextLogs ==
  \/ \E env \in Environments : setEnvironment(env)
  \/ \E d \in LogDraws : LogTick(d)
  \/ ToggleStreaming
  \/ ClearLogs
  \/ \E f \in LogLevels \cup {"all"} : SetFilter(f)

SpecLogs == Init /\ [][NextLogs]_vars

\* The environment simulator: clicks on the environment buttons and the
\* timeouts they start.
NextSwitch ==
  \/ \E env \in Environments : handleEnvironmentChange(env)
  \/ EnvironmentTimeout

SpecSwitch == Init /\ [][NextSwitch]_vars

\* The log viewer with a buffer one entry short of KeepLast, as 49 ticks that
\* drew entry 2 of sampleLogs leave it.
InitLogsWarm ==
  /\ SimulatorInit
  /\ EnvironmentInit(DevBuild)
  /\ SwitcherInit
  /\ FlagsInit
  /\ logs = [i \in 1..(KeepLast - 1) |-> WarmLog]
  /\ isStreaming = TRUE
  /\ filter = "all"

SpecLogsWarm == InitLogsWarm /\ [][NextLogs]_vars

\* The simulator's steps alone: either experiment selected and untouched,
\* then the range input, the start / pause button and the timer.
InitSteps ==
  /\ selectedExperiment \in Experiments
  /\ isSimulating = FALSE
  /\ totalUsers = 0
  /\ results = InitResults(selectedExperiment)
  /\ rollout = selectedExperiment.rolloutPercentage
  /\ interval = << >>
  /\ batch = 0
  /\ lastOp = Mount
  /\ run = [full |-> 0, zero |-> 0, resumed |-> FALSE, zeroBatch |-> FALSE]
  /\ EnvironmentInit(DevBuild)
  /\ SwitcherInit
  /\ FlagsInit
  /\ LogViewerInit

\* Values given to the range input in the exploration of the steps.
StepRollouts == {0, 100}

NextSteps ==
  \/ \E p \in StepRollouts : SetRollout(p)
  \/ ToggleSimulation
  \/ \E da \in AdmitDraws, dv \in VariantDraws, dj \in JitterDraws, dc \in ConvDraws :
       simulateUser(da, dv, dj, dc)

SpecSteps == InitSteps /\ [][NextSteps]_vars

\* The conversion decision as a function of the variant's base rate and the
\* two draws: experiments of one variant whose base rate is 0%, 0.2%, 99.8%
\* or 100%, every user admitted.
BaseRateInputs == {0, 2, 100 * RateScale - 2, 100 * RateScale}
JitterInputs   == {0, DrawScale \div 2, DrawScale - 1}
ConvInputs     == {0, 1, DrawScale \div 2, DrawScale - 2, DrawScale - 1}

ProbeExperiments ==
  { [ id |-> "probe", rolloutPercentage |-> 100,
      variants |-> << [id |-> "control", conversionRate |-> base] >> ] :
    base \in BaseRateInputs }

InitConversion ==
  /\ selectedExperiment \in ProbeExperiments
  /\ isSimulating = FALSE
  /\ totalUsers = 0
  /\ results = InitResults(selectedExperiment)
  /\ rollout = selectedExperiment.rolloutPercentage
  /\ interval = << >>
  /\ batch = 0
  /\ lastOp = Mount
  /\ run = [full |-> 0, zero |-> 0, resumed |-> FALSE, zeroBatch |-> FALSE]
  /\ EnvironmentInit(DevBuild)
  /\ SwitcherInit
  /\ FlagsInit
  /\ LogViewerInit

NextConversion ==
  \/ ToggleSimulation
  \/ \E dj \in JitterInputs, dc \in ConvInputs : simulateUser(0, 0, dj, dc)

SpecConversion == InitConversion /\ [][NextConversion]_vars

TypeOK ==
  /\ selectedExperiment \in Experiments
  /\ isSimulating \in BOOLEAN
  /\ totalUsers \in Nat
  /\ rollout \in Int
  /\ batch \in 0..(BatchSize - 1)

\* ------------------------------------------------------------- properties
\* Row k of res has a conversionRate that no other row exceeds.
NotExceeded(res, k) ==
  \A j \in 1..Len(res) : ~RateGT(res[j].conversionRate, res[k].conversionRate)

Leading(res) == { k \in 1..Len(res) : NotExceeded(res, k) }

FirstLeading(res) == CHOOSE k \in Leading(res) : \A j \in Leading(res) : k <= j
LastLeading(res)  == CHOOSE k \in Leading(res) : \A j \in Leading(res) : k >= j

ZeroRows(res, exp) ==
  /\ Len(res) = Len(exp.variants)
  /\ \A k \in 1..Len(res) :
       /\ res[k].variantId = exp.variants[k].id
       /\ res[k].users = 0
       /\ res[k].conversions = 0

\* C1 (as stated): when a winner is reported it is the first row, in list
\* order, whose conversionRate no other row exceeds.
C1_FirstOccurrence ==
  winner # << >> => winner[1] = results[FirstLeading(results)]

\* C1 (amended): when a winner is reported it is the last row, in list
\* order, whose conversionRate no other row exceeds; rows that share the
\* greatest conversionRate are resolved in favour of the later one.
C1_LastOccurrence ==
  winner # << >> => winner[1] = results[LastLeading(results)]

C1_Witness ==
  /\ totalUsers >= MinSample
  /\ Cardinality(Leading(results)) >= 2
  /\ results[1].conversions > 0
  /\ lastOp.op = "simulateUser"
  /\ winner = << results[LastLeading(results)] >>

\* C2: no winner is reported exactly when totalUsers < 100; with
\* totalUsers >= 100 the result set is not empty and the winner is one of its
\* rows, for a variant of the selected experiment.
C2_MinSampleGate ==
  /\ (totalUsers < MinSample) <=> (winner = << >>)
  /\ totalUsers >= MinSample =>
       /\ results # << >>
       /\ \E k \in 1..Len(results) : winner = << results[k] >>
       /\ \E k \in 1..Len(selectedExperiment.variants) :
            selectedExperiment.variants[k].id = winner[1].variantId

C2_Witness ==
  /\ totalUsers = MinSample
  /\ lastOp.op = "simulateUser"
  /\ lastOp.arg = "admit"
  /\ winner # << >>

\* C3: a step that changes the selected experiment leaves the simulator not
\* running (no interval), totalUsers = 0 and one zeroed row per variant of the
\* newly selected experiment.
C3_SwitchResets ==
  [][ selectedExperiment' # selectedExperiment =>
        /\ ~isSimulating'
        /\ interval' = << >>
        /\ totalUsers' = 0
        /\ ZeroRows(results', selectedExperiment') ]_vars

C3_Witness ==
  /\ lastOp.op = "selectExperiment"
  /\ lastOp.arg = "switch"
  /\ lastOp.wasRunning
  /\ lastOp.hadUsers
  /\ totalUsers = 0

\* C4: reset leaves the simulator not running with totalUsers = 0 and every
\* row zeroed, and a reset that directly follows a reset changes nothing.
C4_ResetIdempotent ==
  [][ lastOp'.op = "reset" =>
        /\ ~isSimulating'
        /\ interval' = << >>
        /\ totalUsers' = 0
        /\ ZeroRows(results', selectedExperiment)
        /\ lastOp.op = "reset" => UNCHANGED simVars ]_vars

C4_Witness ==
  /\ lastOp.op = "reset"
  /\ lastOp.repeat
  /\ totalUsers = 0
  /\ run.zeroBatch

\* C5: totalUsers is the sum of users over the rows of the result set, the
\* rows are those of the selected experiment, and a live interval closes over
\* the selected experiment.
C5_CounterConsistency ==
  /\ totalUsers = SumUsers(results)
  /\ Len(results) = Len(selectedExperiment.variants)
  /\ \A k \in 1..Len(results) :
       results[k].variantId = selectedExperiment.variants[k].id
  /\ interval # << >> => interval[1].selectedExperiment = selectedExperiment

C5_Witness ==
  /\ selectedExperiment = experiments[2]
  /\ batch # 0
  /\ lastOp.arg = "admit"
  /\ results[3].users > 0
  /\ run.resumed

\* C6: simulateUser calls happen only while the simulator is running;
\* counters change only by such a call, a reset or an experiment switch; the
\* start / pause button leaves the counters as they are; a tick callback that
\* has begun makes all its calls before anything else happens.
C6_StepsOnlyWhileRunning ==
  [][ /\ batch' # batch => isSimulating /\ isSimulating' /\ interval # << >>
      /\ (<<totalUsers, results>>' # <<totalUsers, results>>
          /\ lastOp'.op \notin {"reset", "selectExperiment"}) =>
           batch' # batch /\ isSimulating
      /\ lastOp'.op = "toggle" =>
           /\ UNCHANGED <<totalUsers, results>>
           /\ isSimulating' = ~isSimulating
      /\ batch # 0 => batch' = (batch + 1) % BatchSize /\ isSimulating' ]_vars

C6_Witness ==
  /\ run.resumed
  /\ lastOp.op = "simulateUser"
  /\ lastOp.arg = "admit"
  /\ lastOp.hadUsers
  /\ batch = 0

\* C7: while every simulateUser call since the counters were zeroed ran with
\* rollout 0 all counters are 0; while every one ran with rollout 100,
\* totalUsers and the sum of the rows' users equal the number of calls.
C7_RolloutExtremes ==
  /\ run.zero >= 0 => totalUsers = 0 /\ ZeroRows(results, selectedExperiment)
  /\ run.full >= 0 => totalUsers = run.full /\ SumUsers(results) = run.full

C7_Witness ==
  /\ run.full = BatchSize
  /\ run.zeroBatch
  /\ totalUsers = BatchSize

\* C8: rollout is within [0, 100] in every state, and a value outside the range
\* given to the range input is stored as the nearer boundary.
C8_RolloutInRange ==
  /\ rollout \in 0..100
  /\ lastOp.op = "setRollout" =>
       /\ lastOp.input < 0 => rollout = 0
       /\ lastOp.input > 100 => rollout = 100
       /\ lastOp.input \in 0..100 => rollout = lastOp.input

C8_Witness ==
  /\ lastOp.op = "setRollout"
  /\ lastOp.input > 100
  /\ rollout = 100
  /\ lastOp.wasRunning

\* C9 (as stated): the stored conversionRate of every row is
\* conversions / users, and 0 for a row without users.
C9_Ratio ==
  \A k \in 1..Len(results) :
    /\ results[k].users = 0 => results[k].conversionRate = ZeroRate
    /\ results[k].users > 0 =>
         results[k].conversionRate.n * results[k].users
           = results[k].conversions * results[k].conversionRate.d

\* C9 (amended): the stored conversionRate of every row is the percentage
\* (conversions / users) * 100, and 0 for a row without users.
C9_Percentage ==
  \A k \in 1..Len(results) :
    /\ results[k].conversionRate.d > 0
    /\ results[k].users = 0 => results[k].conversionRate = ZeroRate
    /\ results[k].users > 0 =>
         results[k].conversionRate.n * results[k].users
           = 100 * results[k].conversions * results[k].conversionRate.d

C9_Witness ==
  /\ lastOp.arg = "admit"
  /\ \E k \in 1..Len(results) :
       /\ results[k].conversions > 0
       /\ results[k].conversions < results[k].users
  /\ \E k \in 1..Len(results) : results[k].users = 0


\* ---------------------------------------------------- properties of flags
KnownFlag(flagId) == \E k \in 1..Len(registry) : registry[k].id = flagId

\* The flag the last call asked for, when the registry has it.
AskedFlag == registry[CHOOSE k \in 1..Len(registry) : registry[k].id = lastEval.flagId]

\* The draw of the last call as a number u of [0,100), compared with a percentage.
DrawBelow(d, percentage) == d * 100 < percentage * DrawScale

\* Flags with 0 < rolloutPercentage < 100.
PartialRollout(flag) ==
  /\ flag.rolloutPercentage # << >>
  /\ flag.rolloutPercentage[1] > 0
  /\ flag.rolloutPercentage[1] < 100

\* C11: isFeatureEnabled of an id that no flag of the registry has returns
\* false, in every environment and for every draw, and the registry is as it
\* was defined.
C11_FailsClosed ==
  (lastEval.op = "isFeatureEnabled" /\ ~KnownFlag(lastEval.flagId)) =>
     /\ lastEval.result = FALSE
     /\ registry = featureFlags

C11_Witness ==
  /\ lastEval.op = "isFeatureEnabled"
  /\ lastEval.flagId = "unknown_flag"
  /\ lastEval.env = "production"
  /\ lastEval.draw = 0
  /\ lastEval.result = FALSE

\* C12: isFeatureEnabled returns true only for a flag of the registry whose
\* enablement for the environment of the call is true; with a false
\* enablement the result is false whatever the rollout percentage (100 and
\* undefined included) and whatever the draw.
C12_GateDominance ==
  (lastEval.op = "isFeatureEnabled" /\ KnownFlag(lastEval.flagId)) =>
     /\ ~AskedFlag.enabled[lastEval.env] => lastEval.result = FALSE
     /\ lastEval.result = TRUE => AskedFlag.enabled[lastEval.env]

C12_Witness ==
  /\ lastEval.op = "isFeatureEnabled"
  /\ lastEval.flagId = "dark_mode_v2"
  /\ lastEval.env = "production"
  /\ AskedFlag.rolloutPercentage = <<100>>
  /\ ~AskedFlag.enabled["production"]
  /\ lastEval.result = FALSE

\* C13: for a flag of the registry whose enablement for the environment of
\* the call is true, isFeatureEnabled returns true when rolloutPercentage is
\* undefined or at least 100, and otherwise returns whether the draw u of the
\* call is below rolloutPercentage; a rolloutPercentage of 0 gives false and
\* one of 100 gives true.
C13_RolloutDecision ==
  ( /\ lastEval.op = "isFeatureEnabled"
    /\ KnownFlag(lastEval.flagId)
    /\ AskedFlag.enabled[lastEval.env] ) =>
     /\ AskedFlag.rolloutPercentage = << >> => lastEval.result = TRUE
     /\ AskedFlag.rolloutPercentage # << >> =>
          /\ AskedFlag.rolloutPercentage[1] >= 100 => lastEval.result = TRUE
          /\ AskedFlag.rolloutPercentage[1] < 100 =>
               lastEval.result = DrawBelow(lastEval.draw, AskedFlag.rolloutPercentage[1])
          /\ AskedFlag.rolloutPercentage[1] = 0 => lastEval.result = FALSE

C13_Witness ==
  /\ lastEval.op = "isFeatureEnabled"
  /\ lastEval.flagId = "beta_api_v2"
  /\ lastEval.env = "staging"
  /\ AskedFlag.enabled["staging"]
  /\ AskedFlag.rolloutPercentage = <<25>>
  /\ lastEval.draw = 300
  /\ lastEval.result = FALSE

\* C14: getAllFeatureFlags returns one entry per flag of the registry, in the
\* registry's order, and the entry's currentlyEnabled is the flag's
\* enablement for the environment of the call, whatever the rollout
\* percentage; for a flag with a true enablement and 0 < rolloutPercentage <
\* 100 there is a draw for which isFeatureEnabled is false and another for
\* which it is true, in the same state.
C14_ListAll ==
  /\ lastEval.op = "getAllFeatureFlags" =>
       /\ Len(lastEval.list) = Len(registry)
       /\ \A k \in 1..Len(registry) :
            /\ lastEval.list[k].id = registry[k].id
            /\ lastEval.list[k].rolloutPercentage = registry[k].rolloutPercentage
            /\ lastEval.list[k].currentlyEnabled = registry[k].enabled[lastEval.env]
  /\ \A k \in 1..Len(registry) :
       (registry[k].enabled[getCurrentEnvironment(build)] /\ PartialRollout(registry[k])) =>
          \E d1, d2 \in FlagDraws :
            /\ ~isFeatureEnabled(registry, registry[k].id, build, d1)
            /\ isFeatureEnabled(registry, registry[k].id, build, d2)

C14_Witness ==
  /\ lastEval.op = "getAllFeatureFlags"
  /\ lastEval.env = "production"
  /\ \E k \in 1..Len(lastEval.list) :
       /\ lastEval.list[k].id = "new_dashboard"
       /\ lastEval.list[k].currentlyEnabled
       /\ PartialRollout(registry[k])
       /\ ~isFeatureEnabled(registry, "new_dashboard", build, 990)
  /\ \E k \in 1..Len(lastEval.list) :
       /\ lastEval.list[k].id = "export_pdf"
       /\ lastEval.list[k].currentlyEnabled

\* C15 (as stated): once an environment has been selected with
\* setEnvironment, isFeatureEnabled and getAllFeatureFlags evaluate the flags
\* for the environment that the context has selected at the time of the call.
C15_FollowsSelection ==
  (lastEval.op \in {"isFeatureEnabled", "getAllFeatureFlags"} /\ lastEval.simulated) =>
     lastEval.env = lastEval.selected

\* C16: the ids of the registry are pairwise distinct, every flag has a
\* Boolean enablement for each of the three environments, every defined
\* rolloutPercentage is between 0 and 100, and the registry is as it was
\* defined after any sequence of calls and environment changes.
C16_RegistryInvariant ==
  /\ \A j, k \in 1..Len(registry) : registry[j].id = registry[k].id => j = k
  /\ \A k \in 1..Len(registry) :
       /\ DOMAIN registry[k].enabled = Environments
       /\ \A e \in Environments : registry[k].enabled[e] \in BOOLEAN
       /\ registry[k].rolloutPercentage # << >> =>
            registry[k].rolloutPercentage[1] \in RangeMin..RangeMax
  /\ registry = featureFlags

C16_Witness ==
  /\ lastEval.op = "getAllFeatureFlags"
  /\ lastEval.simulated
  /\ lastEval.selected = "staging"
  /\ Len(lastEval.list) = Len(featureFlags)
  /\ registry = featureFlags

\* The settings the configuration table is documented to hold.
ExpectedSettings ==
  [ development |-> [logLevel |-> "debug", apiUrl |-> "http://localhost:3000/api",
                     features |-> [analytics |-> FALSE, errorReporting |-> FALSE,
                                   experimentalFeatures |-> TRUE]],
    staging     |-> [logLevel |-> "info", apiUrl |-> "https://staging-api.example.com",
                     features |-> [analytics |-> TRUE, errorReporting |-> TRUE,
                                   experimentalFeatures |-> TRUE]],
    production  |-> [logLevel |-> "error", apiUrl |-> "https://api.example.com",
                     features |-> [analytics |-> TRUE, errorReporting |-> TRUE,
                                   experimentalFeatures |-> FALSE]] ]

Matches(cfg, env) ==
  /\ cfg.name = env
  /\ cfg.logLevel = ExpectedSettings[env].logLevel
  /\ cfg.apiUrl = ExpectedSettings[env].apiUrl
  /\ cfg.features = ExpectedSettings[env].features

\* C17: both tables have an entry for each of development, staging and
\* production; the config the context exposes has the name of the selected
\* environment and the config getConfig returns has the name of the
\* environment it resolved, and each has the logLevel, features and apiUrl of
\* the fixed table (production: error, experimentalFeatures false;
\* development: debug, analytics false).
C17_ResolveTotal ==
  /\ DOMAIN configTables.context = Environments
  /\ DOMAIN configTables.environment = Environments
  /\ Matches(config, currentEnvironment)
  /\ lastEval.op = "getConfig" =>
       /\ Len(lastEval.config) = 1
       /\ Matches(lastEval.config[1], lastEval.env)
  /\ ExpectedSettings["production"].logLevel = "error"
  /\ ExpectedSettings["development"].logLevel = "debug"

C17_Witness ==
  /\ lastEval.op = "getConfig"
  /\ lastEval.env = "production"
  /\ lastEval.config[1].logLevel = "error"
  /\ ~lastEval.config[1].features.experimentalFeatures
  /\ currentEnvironment = "production"
  /\ config.name = "production"
  /\ config.logLevel = "error"

\* C18: the context's table and getConfig's table hold the same settings for
\* every environment, the config the context exposes is its table's entry
\* for currentEnvironment, and the tables are as they were defined after any
\* sequence of setEnvironment.
C18_SingleSource ==
  /\ \A e \in Environments : configTables.context[e] = configTables.environment[e]
  /\ config = configTables.context[currentEnvironment]
  /\ configTables = [context |-> configs, environment |-> environmentConfigs]

C18_Witness ==
  /\ isSimulated
  /\ currentEnvironment = "staging"
  /\ config = environmentConfigs["staging"]
  /\ lastEval.op = "getConfig"
  /\ lastEval.simulated


\* ----------------------------------------------- properties of the log viewer
\* The total order debug < info < warn < error.
SeverityOrder == << "debug", "info", "warn", "error" >>

Rank(s) == CHOOSE i \in 1..Len(SeverityOrder) : SeverityOrder[i] = s

\* The levels each environment is documented to show.
Shown ==
  [ development |-> {"debug", "info", "warn", "error"},
    staging     |-> {"info", "warn", "error"},
    production  |-> {"error"} ]

\* The entries shown before the user's filter, for a minimum level.
Admitted(m) == filteredLogs(logs, m, "all")

AdmittedIndexes(m) == { i \in 1..Len(logs) : passesEnvFilter(logs[i].level, m) }

\* C19: an entry of level s passes the environment's filter exactly when
\* rank(s) >= rank(logLevel of the environment's config) in the order debug <
\* info < warn < error: development shows the four levels, staging info, warn
\* and error, production error only; the entries shown before the user's
\* filter are the entries of the buffer of those levels.
C19_Admission ==
  /\ \A s \in LogLevels, e \in Environments :
       /\ passesEnvFilter(s, configTables.context[e].logLevel)
            <=> Rank(s) >= Rank(configTables.context[e].logLevel)
       /\ passesEnvFilter(s, configTables.context[e].logLevel) <=> s \in Shown[e]
  /\ Admitted(config.logLevel) =
       SelectSeq(logs, LAMBDA log : log.level \in Shown[currentEnvironment])

C19_Witness ==
  /\ currentEnvironment = "production"
  /\ Len(logs) = MaxLogs
  /\ \E i \in 1..Len(logs) : logs[i].level = "error"
  /\ \E i \in 1..Len(logs) : logs[i].level = "warn"
  /\ Len(Admitted(config.logLevel)) = 1

\* C20: for the buffer as it is, the entries that pass the filter of a higher
\* minimum level are among those that pass the filter of a lower one, and
\* the numbers of entries shown for debug, info, warn and error as minimum
\* level do not increase in that order.
C20_Monotonic ==
  \A i, j \in 1..Len(SeverityOrder) :
     i <= j =>
       /\ AdmittedIndexes(SeverityOrder[j]) \subseteq AdmittedIndexes(SeverityOrder[i])
       /\ Len(Admitted(SeverityOrder[j])) <= Len(Admitted(SeverityOrder[i]))

C20_Witness ==
  /\ Len(logs) = MaxLogs
  /\ Len(Admitted("debug")) > Len(Admitted("info"))
  /\ Len(Admitted("info")) > Len(Admitted("warn"))
  /\ Len(Admitted("warn")) > Len(Admitted("error"))
  /\ Len(Admitted("error")) > 0


\* The number of entries of the buffer of a level.
EntriesOf(level) == Cardinality({ i \in 1..Len(logs) : logs[i].level = level })

\* C21: the count of logCounts for a level is the number of entries of that
\* level in the buffer when the level is at or above the environment's
\* minimum level, and the level has no count (shown as zero) when it is
\* below; the counts of the four levels add up to the number of entries
\* shown when the user's filter is 'all'.
C21_CountsByLevel ==
  LET counts == logCounts(logs, config.logLevel)
  IN  /\ \A level \in LogLevels :
           IF Rank(level) >= Rank(config.logLevel)
           THEN TabCount(counts, level) = EntriesOf(level)
           ELSE level \notin DOMAIN counts /\ TabCount(counts, level) = 0
      /\ TabCount(counts, "debug") + TabCount(counts, "info")
           + TabCount(counts, "warn") + TabCount(counts, "error")
         = Len(filteredLogs(logs, config.logLevel, "all"))

C21_Witness ==
  /\ currentEnvironment = "staging"
  /\ Len(logs) = MaxLogs
  /\ EntriesOf("debug") = 2
  /\ EntriesOf("info") = 1
  /\ EntriesOf("error") = 1
  /\ logCounts(logs, config.logLevel) = [l \in {"info", "error"} |-> 1]


\* ------------------------------------------- properties of simulator steps
\* C22: a simulateUser step whose admission draw, as a number of [0,100), is
\* at least the current rollout percentage leaves totalUsers, every row of
\* results, the selected experiment, the rollout percentage and isSimulating
\* as they were.
C22_SkipIsNoOp ==
  [][ lastOp'.op = "simulateUser" =>
        \A da \in AdmitDraws :
          ( /\ da * 100 >= rollout * DrawScale
            /\ \E dv \in VariantDraws, dj \in JitterDraws, dc \in ConvDraws :
                  simulateUser(da, dv, dj, dc) ) =>
             UNCHANGED <<totalUsers, results, selectedExperiment, rollout, isSimulating>>
    ]_vars

C22_Witness ==
  /\ lastOp.op = "simulateUser"
  /\ lastOp.arg = "skip"
  /\ lastOp.hadUsers
  /\ totalUsers > 0
  /\ rollout > 0
  /\ isSimulating


\* Row k of the results after the step has one more user than before, and one
\* more conversion exactly when converted.
Credited(k, converted) ==
  /\ results'[k].variantId = results[k].variantId
  /\ results'[k].users = results[k].users + 1
  /\ results'[k].conversions = results[k].conversions + (IF converted THEN 1 ELSE 0)

\* No counter is lower after the step than before it.
CountersKept ==
  /\ totalUsers' >= totalUsers
  /\ Len(results') = Len(results)
  /\ \A k \in 1..Len(results) :
       /\ results'[k].users >= results[k].users
       /\ results'[k].conversions >= results[k].conversions

\* C23: a simulateUser step whose admission draw is below the rollout
\* percentage adds 1 to totalUsers, adds 1 to the users of the row of
\* variants[floor(r * n)] of the selected experiment, adds 1 to that row's
\* conversions exactly when the user converted, and leaves every other row as
\* it was; a step that is neither a reset nor a selection of an experiment
\* lowers no counter.
C23_AdmittedStep ==
  [][ /\ lastOp'.op = "simulateUser" =>
           \A da \in AdmitDraws :
             da * 100 < rollout * DrawScale =>
               \A dv \in VariantDraws, dj \in JitterDraws, dc \in ConvDraws :
                 simulateUser(da, dv, dj, dc) =>
                   LET n == Len(selectedExperiment.variants)
                       k == ((dv * n) \div DrawScale) + 1
                       variant == selectedExperiment.variants[k]
                   IN  /\ totalUsers' = totalUsers + 1
                       /\ results[k].variantId = variant.id
                       /\ Credited(k, Converted(dc, AdjustedRate(variant, dj)))
                       /\ \A j \in 1..Len(results) : j # k => results'[j] = results[j]
      /\ lastOp'.op \notin {"reset", "selectExperiment"} => CountersKept
    ]_vars

C23_Witness ==
  /\ lastOp.op = "simulateUser"
  /\ lastOp.arg = "admit"
  /\ Len(results) = 3
  /\ results[3].users = 1
  /\ results[3].conversions = 1
  /\ results[2].users = 1
  /\ results[2].conversions = 0
  /\ totalUsers = 2


\* clamp(x, lo, hi)
Clamp(x, lo, hi) == IF x < lo THEN lo ELSE IF x > hi THEN hi ELSE x

\* conv < clamp(base + jitter, 0, 100) for a base rate of base/RateScale
\* percent, the jitter (dj/DrawScale - 0.5) * 0.5 and the draw
\* conv = 100 * dc/DrawScale, all multiplied by 4 * DrawScale * RateScale.
ClampedDecision(base, dj, dc) ==
  LET unit == 4 * DrawScale * RateScale
  IN  100 * dc * 4 * RateScale
        < Clamp(base * 4 * DrawScale + (2 * dj - DrawScale) * RateScale, 0, 100 * unit)

\* C24: for a variant whose base rate is within [0,100], a jitter within
\* [-0.25, 0.25] and a conversion draw within [0,100), a simulateUser step
\* counts a conversion exactly when conv < clamp(base + jitter, 0, 100).
C24_ClampedRate ==
  [][ lastOp'.op = "simulateUser" =>
        \A dj \in JitterInputs, dc \in ConvInputs :
          simulateUser(0, 0, dj, dc) =>
            ( results'[1].conversions = results[1].conversions + 1
                <=> ClampedDecision(selectedExperiment.variants[1].conversionRate, dj, dc) )
    ]_vars

C24_Witness ==
  /\ lastOp.op = "simulateUser"
  /\ lastOp.arg = "admit"
  /\ selectedExperiment.variants[1].conversionRate = 0
  /\ results[1].users = 2
  /\ results[1].conversions = 1


\* ls is what remains of prev after dropping some of its oldest entries.
IsSuffix(ls, prev) ==
  /\ Len(ls) <= Len(prev)
  /\ ls = SubSeq(prev, Len(prev) - Len(ls) + 1, Len(prev))

\* C25 (as stated): the buffer never holds more than 50 entries, and a step
\* that changes it either empties it or puts one new entry after the most
\* recent entries it held, in their order.
C25_KeepsLast50 ==
  /\ [](Len(logs) <= KeepLast)
  /\ [][ logs' # logs =>
           \/ logs' = << >>
           \/ /\ logs' # << >>
              /\ IsSuffix(SubSeq(logs', 1, Len(logs') - 1), logs) ]_vars


\* C26 (as stated): the environment a call of the flag or config functions
\* gets from getCurrentEnvironment is one of development, staging and
\* production; it is VITE_APP_ENV whenever VITE_APP_ENV is the name of one of
\* the three, whatever MODE is, and otherwise it is production when MODE is
\* 'production' and development when it is not.
C26_CustomVariableFirst ==
  lastEval.op # "none" =>
     /\ lastEval.env \in Environments
     /\ build.VITE_APP_ENV \in Environments => lastEval.env = build.VITE_APP_ENV
     /\ build.VITE_APP_ENV \notin Environments =>
          lastEval.env = (IF build.MODE = "production" THEN "production" ELSE "development")


\* C27: a click on the experiment that is already selected leaves the
\* simulator not running (no interval), and leaves totalUsers, every row of
\* results and the rollout percentage as they were.
C27_ReselectKeepsCounters ==
  [][ (lastOp'.op = "selectExperiment" /\ selectedExperiment' = selectedExperiment) =>
        /\ ~isSimulating'
        /\ interval' = << >>
        /\ UNCHANGED <<totalUsers, results, rollout>>
    ]_vars

C27_Witness ==
  /\ lastOp.op = "selectExperiment"
  /\ lastOp.arg = "same"
  /\ lastOp.wasRunning
  /\ ~isSimulating
  /\ totalUsers = BatchSize
  /\ rollout # selectedExperiment.rolloutPercentage


\* C28: a click that changes the selected experiment sets the rollout
\* percentage to the one the new experiment is configured with; reset, start,
\* pause and simulateUser steps leave it as it was; a change of the range
\* input leaves totalUsers, results and isSimulating as they were, and the
\* simulateUser of the running interval always tests the current value.
C28_RolloutOwnership ==
  [][ /\ (lastOp'.op = "selectExperiment" /\ selectedExperiment' # selectedExperiment) =>
           rollout' = selectedExperiment'.rolloutPercentage
      /\ lastOp'.op \in {"reset", "toggle", "simulateUser"} => rollout' = rollout
      /\ lastOp'.op = "setRollout" =>
           /\ UNCHANGED <<totalUsers, results, isSimulating, selectedExperiment>>
           /\ rollout' = RangeValue(lastOp'.input)
      /\ interval' # << >> => interval'[1].rollout = rollout'
    ]_vars

C28_Witness ==
  /\ lastOp.op = "simulateUser"
  /\ lastOp.arg = "skip"
  /\ lastOp.hadUsers
  /\ rollout = 0
  /\ selectedExperiment.rolloutPercentage # 0
  /\ ~run.resumed
  /\ totalUsers > 0
  /\ isSimulating


\* C29 (as stated): after any sequence of clicks on the filter tabs and
\* changes of environment, the active filter is 'all' or a level at or above
\* the minimum level of the current environment, that is, a level whose tab
\* is not disabled.
C29_FilterSelectable ==
  IF filter = "all" THEN TRUE ELSE Rank(filter) >= Rank(config.logLevel)


\* C30 (as stated): when no timeout of the environment simulator is pending,
\* the current environment is the one of the last button clicked, and the
\* transition indicator is on exactly while a timeout is pending.
C30_LastRequestWins ==
  /\ (pending = << >> /\ requested # << >>) => currentEnvironment = requested[1]
  /\ isTransitioning <=> pending # << >>

====
